---------------------------- MODULE Spec2Model ----------------------------
(***************************************************************************)
(* A model of mdfmt (src/mdfmt.go): the Formatter pipeline and its rules.   *)
(*                                                                         *)
(* A document is a sequence of characters, each character a one-element    *)
(* string ("\n" is the line feed, "\\" the backslash).  The two multi-byte  *)
(* quotation marks of the default replacement mapping are the characters   *)
(* "lq9" (U+201E) and "lq6" (U+201C): strings.ReplaceAll replaces whole     *)
(* encoded runes, so one symbol per rune loses nothing.                    *)
(***************************************************************************)
EXTENDS Integers, Sequences, FiniteSets, TLC

VARIABLES
    rules,      \* Formatter.rules: the ordered rule list
    input,      \* the document handed to the current call of Format
    content,    \* Format's local `content`
    idx,        \* the number of loop iterations of Format completed
    pc,         \* "run": inside Format's loop, "done": Format has returned
    result,     \* the text Format returned
    err,        \* the error Format returned (NilErr: nil)
    applied,    \* history: the Apply calls made by the current call of Format
    calls,      \* the number of calls of Format that have returned
    prev        \* the text returned by the previous call of Format

vars == <<rules, input, content, idx, pc, result, err, applied, calls, prev>>

-----------------------------------------------------------------------------
(* Characters and the strings package                                       *)

NL == "\n"
BS == "\\"

\* unicode.IsSpace on the characters of the model (strings.TrimSpace), and
\* the regexp class \s, which is [\t\n\f\r ]
WhiteSpace == {" ", "\t", "\n", "\r", "\f"}

\* the cutset " \t" and the regexp class [ \t]
SpaceTab == {" ", "\t"}

Digits == {"0", "1", "2", "3", "4", "5", "6", "7", "8", "9"}

\* all strings over alphabet A of length at most n
Strings(A, n) == UNION {[1..k -> A] : k \in 0..n}

Drop(s, k) == SubSeq(s, k + 1, Len(s))

Take(s, k) == SubSeq(s, 1, k)

HasPrefix(s, p) == Len(s) >= Len(p) /\ Take(s, Len(p)) = p

\* the index of the first occurrence of p in s at or after position i, 0 if none
RECURSIVE IndexFrom(_, _, _)
IndexFrom(s, p, i) ==
    IF i + Len(p) - 1 > Len(s) THEN 0
    ELSE IF SubSeq(s, i, i + Len(p) - 1) = p THEN i
    ELSE IndexFrom(s, p, i + 1)

Contains(s, p) == IndexFrom(s, p, 1) # 0

\* strings.Split(s, "\n"): always at least one element
RECURSIVE Split(_, _)
Split(s, sep) ==
    LET i == IndexFrom(s, <<sep>>, 1)
    IN  IF i = 0 THEN <<s>>
        ELSE <<Take(s, i - 1)>> \o Split(Drop(s, i), sep)

\* strings.Join(lines, "\n")
RECURSIVE Join(_, _)
Join(lines, sep) ==
    IF Len(lines) = 0 THEN <<>>
    ELSE IF Len(lines) = 1 THEN lines[1]
    ELSE lines[1] \o <<sep>> \o Join(Tail(lines), sep)

\* strings.TrimLeft(s, cutset)
RECURSIVE TrimLeft(_, _)
TrimLeft(s, cutset) ==
    IF Len(s) > 0 /\ s[1] \in cutset THEN TrimLeft(Tail(s), cutset) ELSE s

RECURSIVE TrimRight(_, _)
TrimRight(s, cutset) ==
    IF Len(s) > 0 /\ s[Len(s)] \in cutset
    THEN TrimRight(Take(s, Len(s) - 1), cutset) ELSE s

\* strings.TrimSpace(s)
TrimSpace(s) == TrimRight(TrimLeft(s, WhiteSpace), WhiteSpace)

\* strings.ReplaceAll(s, old, new): the non-overlapping occurrences of old,
\* left to right; an empty old matches before every character and at the end
RECURSIVE ReplaceAll(_, _, _)
ReplaceAll(s, old, new) ==
    IF Len(old) = 0
    THEN IF Len(s) = 0 THEN new
         ELSE new \o <<s[1]>> \o ReplaceAll(Tail(s), old, new)
    ELSE LET i == IndexFrom(s, old, 1)
         IN  IF i = 0 THEN s
             ELSE Take(s, i - 1) \o new \o ReplaceAll(Drop(s, i + Len(old) - 1), old, new)

\* the length of the longest prefix of s made of characters of class
RECURSIVE Span(_, _)
Span(s, class) ==
    IF Len(s) > 0 /\ s[1] \in class THEN 1 + Span(Tail(s), class) ELSE 0

-----------------------------------------------------------------------------
(* Rule 1: BlankLineAfterHeadingRule                                        *)

\* the `count < 6` of isATXHeading's loop
MaxHeadingLevel == 6

\* CountHashes without the `count < 6` of the loop
RECURSIVE CountHashesNoCap(_, _)
CountHashesNoCap(t, count) ==
    IF count < Len(t) /\ t[count + 1] = "#"
    THEN CountHashesNoCap(t, count + 1)
    ELSE count

\* isATXHeading's loop: count the leading '#', stopping at MaxHeadingLevel
RECURSIVE CountHashes(_, _)
CountHashes(t, count) ==
    IF count < Len(t) /\ t[count + 1] = "#" /\ count < MaxHeadingLevel
    THEN CountHashes(t, count + 1)
    ELSE count

isATXHeading(line) ==
    LET t == TrimLeft(line, SpaceTab)
        count == CountHashes(t, 0)
    IN  IF ~HasPrefix(t, <<"#">>) THEN FALSE
        ELSE IF count = 0 \/ Len(t) <= count THEN FALSE
        ELSE t[count + 1] = " " \/ t[count + 1] = "\t"

\* the loop of BlankLineAfterHeadingRule.Apply from line i on
RECURSIVE HeadingLoop(_, _, _)
HeadingLoop(lines, i, outLines) ==
    IF i > Len(lines) THEN outLines
    ELSE LET copied == Append(outLines, lines[i])
         IN  IF isATXHeading(lines[i])
                /\ (i + 1 > Len(lines) \/ TrimSpace(lines[i + 1]) # <<>>)
             THEN HeadingLoop(lines, i + 1, Append(copied, <<>>))
             ELSE HeadingLoop(lines, i + 1, copied)

BlankLineAfterHeadingApply(text) ==
    Join(HeadingLoop(Split(text, NL), 1, <<>>), NL)

-----------------------------------------------------------------------------
(* Rule 2: InlineMathRule                                                   *)
\* the pattern is \\\(\s*(.*?)\s*\\\)

AllIn(s, from, to, class) == \A j \in from..to : s[j] \in class

NoneIn(s, from, to, class) == \A j \in from..to : s[j] \notin class

\* One way the pattern can match at position i: the opening `\(`, w1
\* characters of \s, c characters of `.` (any character but the line feed),
\* w2 characters of \s, the closing `\)`.
MathWay(s, i, w1, c, w2) ==
    LET e == i + 1 + w1 + c + w2
    IN  /\ e + 2 <= Len(s)
        /\ s[i] = BS /\ s[i + 1] = "("
        /\ AllIn(s, i + 2, i + 1 + w1, WhiteSpace)
        /\ NoneIn(s, i + 2 + w1, i + 1 + w1 + c, {NL})
        /\ AllIn(s, i + 2 + w1 + c, e, WhiteSpace)
        /\ s[e + 1] = BS /\ s[e + 2] = ")"

MathWays(s, i) ==
    IF i + 3 <= Len(s) /\ s[i] = BS /\ s[i + 1] = "("
    THEN LET room == 0..(Len(s) - i - 3)
         IN  {w \in room \X room \X room : MathWay(s, i, w[1], w[2], w[3])}
    ELSE {}

\* MathPreferred with a greedy (.*) in place of the lazy (.*?)
MathPreferredGreedy(x, y) ==
    \/ x[1] > y[1]
    \/ x[1] = y[1] /\ x[2] > y[2]
    \/ x[1] = y[1] /\ x[2] = y[2] /\ x[3] >= y[3]

\* The backtracking preference of the pattern: the first \s* is greedy (the
\* longest w1 first), (.*?) is lazy (then the shortest c), the second \s* is
\* greedy (then the longest w2).
MathPreferred(x, y) ==
    \/ x[1] > y[1]
    \/ x[1] = y[1] /\ x[2] < y[2]
    \/ x[1] = y[1] /\ x[2] = y[2] /\ x[3] >= y[3]

MathMatchAt(s, i) ==
    CHOOSE x \in MathWays(s, i) : \A y \in MathWays(s, i) : MathPreferred(x, y)

\* regexp.ReplaceAllString(content, "$$$1$") from position i on: the leftmost
\* match is replaced by "$" + group 1 + "$" and the scan resumes after it
RECURSIVE MathReplaceFrom(_, _)
MathReplaceFrom(s, i) ==
    IF i > Len(s) THEN <<>>
    ELSE IF MathWays(s, i) # {}
    THEN LET m == MathMatchAt(s, i)
             group == SubSeq(s, i + 2 + m[1], i + 1 + m[1] + m[2])
         IN  <<"$">> \o group \o <<"$">>
                 \o MathReplaceFrom(s, i + 4 + m[1] + m[2] + m[3])
    ELSE <<s[i]>> \o MathReplaceFrom(s, i + 1)

InlineMathApply(text) == MathReplaceFrom(text, 1)

-----------------------------------------------------------------------------
(* Rule 3: ReplacementRule                                                  *)

\* the orders in which `range r.replacements` can visit the keys of the map
VisitOrders(replacements) ==
    LET keys == DOMAIN replacements
        n == Cardinality(keys)
    IN  {ord \in [1..n -> keys] : \A i, j \in 1..n : i # j => ord[i] # ord[j]}

\* the loop of ReplacementRule.Apply, visiting the keys in the order ord
RECURSIVE ReplacementLoop(_, _, _)
ReplacementLoop(text, replacements, ord) ==
    IF Len(ord) = 0 THEN text
    ELSE ReplacementLoop(ReplaceAll(text, ord[1], replacements[ord[1]]),
                         replacements, Tail(ord))

ReplacementApply(text, replacements, ord) ==
    ReplacementLoop(text, replacements, ord)

-----------------------------------------------------------------------------
(* Rule 4: BlankLineBeforeTableRule                                         *)

\* one iteration of isTableSeparator's loop over the parts: TRUE is
\* `continue`, FALSE is `return false`
SeparatorPart(segment) ==
    LET part == TrimSpace(segment)
        p1 == IF Len(part) > 0 /\ part[1] = ":" THEN Tail(part) ELSE part
        p2 == IF Len(p1) > 0 /\ p1[Len(p1)] = ":" THEN Take(p1, Len(p1) - 1) ELSE p1
    IN  IF part = <<>> THEN TRUE
        ELSE IF Len(p2) = 0 THEN FALSE
        ELSE \A j \in 1..Len(p2) : p2[j] = "-"

isTableSeparator(line) ==
    LET t == TrimSpace(line)
        parts == Split(t, "|")
    IN  IF ~Contains(t, <<"|">>) THEN FALSE
        ELSE \A k \in 1..Len(parts) : SeparatorPart(parts[k])

\* what BlankLineBeforeTableRule.Apply does to outLines on a separator line
TableInsert(outLines) ==
    LET n == Len(outLines)
    IN  IF n = 0 THEN <<<<>>>>
        ELSE IF n >= 2
        THEN IF TrimSpace(outLines[n - 1]) # <<>>
             THEN Take(outLines, n - 1) \o <<<<>>>> \o Drop(outLines, n - 1)
             ELSE outLines
        ELSE <<<<>>>> \o outLines

\* the loop of BlankLineBeforeTableRule.Apply from line i on
RECURSIVE TableLoop(_, _, _)
TableLoop(lines, i, outLines) ==
    IF i > Len(lines) THEN outLines
    ELSE IF isTableSeparator(lines[i])
    THEN TableLoop(lines, i + 1, Append(TableInsert(outLines), lines[i]))
    ELSE TableLoop(lines, i + 1, Append(outLines, lines[i]))

BlankLineBeforeTableApply(text) ==
    Join(TableLoop(Split(text, NL), 1, <<>>), NL)

-----------------------------------------------------------------------------
(* Rule 5: SingleSpaceAfterEnumerationRule                                  *)
\* the pattern is ^(\s*)(\d+\.)(?:[ \t]{2,})(.*)$

\* The line rewritten to "$1$2 $3" when the pattern matches, else unchanged.
\* Each greedy class is followed by a character outside it, so the longest
\* run is the only one the backtracking can settle on; (.*)$ takes the rest,
\* which has to be free of line feeds.
EnumerationLine(line) ==
    LET n1 == Span(line, WhiteSpace)
        a == Drop(line, n1)
        n2 == Span(a, Digits)
        b == Drop(a, n2)
        n3 == Span(Drop(b, 1), SpaceTab)
        rest == Drop(b, 1 + n3)
    IN  IF n2 >= 1 /\ Len(b) >= 1 /\ b[1] = "." /\ n3 >= 2
           /\ NoneIn(rest, 1, Len(rest), {NL})
        THEN Take(line, n1) \o Take(a, n2) \o <<".", " ">> \o rest
        ELSE line

SingleSpaceAfterEnumerationApply(text) ==
    LET lines == Split(text, NL)
    IN  Join([i \in 1..Len(lines) |-> EnumerationLine(lines[i])], NL)

-----------------------------------------------------------------------------
(* Rule 6: SingleSpaceAfterListItemRule                                     *)
\* the pattern is ^(\s*)[*-](?:[ \t]+)(.*)$

\* ListItemLine with the marker kept instead of normalised to '-'
ListItemLineKeepsMarker(line) ==
    LET n1 == Span(line, WhiteSpace)
        a == Drop(line, n1)
        n2 == Span(Drop(a, 1), SpaceTab)
        rest == Drop(a, 1 + n2)
    IN  IF Len(a) >= 1 /\ a[1] \in {"*", "-"} /\ n2 >= 1
           /\ NoneIn(rest, 1, Len(rest), {NL})
        THEN Take(line, n1) \o <<a[1], " ">> \o rest
        ELSE line

\* The line rewritten to "$1- $2" when the pattern matches, else unchanged.
ListItemLine(line) ==
    LET n1 == Span(line, WhiteSpace)
        a == Drop(line, n1)
        n2 == Span(Drop(a, 1), SpaceTab)
        rest == Drop(a, 1 + n2)
    IN  IF Len(a) >= 1 /\ a[1] \in {"*", "-"} /\ n2 >= 1
           /\ NoneIn(rest, 1, Len(rest), {NL})
        THEN Take(line, n1) \o <<"-", " ">> \o rest
        ELSE line

SingleSpaceAfterListItemApply(text) ==
    LET lines == Split(text, NL)
    IN  Join([i \in 1..Len(lines) |-> ListItemLine(lines[i])], NL)

-----------------------------------------------------------------------------
(* Rules and the Formatter                                                  *)

\* a nil error returned by Rule.Apply
Nil == "nil"

\* the nil error returned by Format
NilErr == [rule |-> "", cause |-> Nil]

NoReplacements == <<>>

Rule(kind, name, replacements, cause) ==
    [kind |-> kind, name |-> name, replacements |-> replacements, cause |-> cause]

NewBlankLineAfterHeadingRule ==
    Rule("BlankLineAfterHeading", "BlankLineAfterHeading", NoReplacements, Nil)

NewInlineMathReplaceRule ==
    Rule("InlineMath", "InlineMathToDollar", NoReplacements, Nil)

NewReplacementRule(name, replacements) ==
    Rule("Replacement", name, replacements, Nil)

NewBlankLineBeforeTableRule ==
    Rule("BlankLineBeforeTable", "BlankLineBeforeTable", NoReplacements, Nil)

NewSingleSpaceAfterEnumerationRule ==
    Rule("SingleSpaceAfterEnumeration", "SingleSpaceAfterEnumeration", NoReplacements, Nil)

NewSingleSpaceAfterListItemRule ==
    Rule("SingleSpaceAfterListItem", "SingleSpaceAfterListItem", NoReplacements, Nil)

\* An implementation of the Rule interface whose Apply fails: it returns the
\* text it was given, partly processed or not, together with the error cause.
FailingRule(name, cause) == Rule("Failing", name, NoReplacements, cause)

\* r.Apply(text), the map of a ReplacementRule being visited in the order ord
ApplyRule(r, text, ord) ==
    CASE r.kind = "BlankLineAfterHeading" ->
            [out |-> BlankLineAfterHeadingApply(text), err |-> Nil]
      [] r.kind = "InlineMath" ->
            [out |-> InlineMathApply(text), err |-> Nil]
      [] r.kind = "Replacement" ->
            [out |-> ReplacementApply(text, r.replacements, ord), err |-> Nil]
      [] r.kind = "BlankLineBeforeTable" ->
            [out |-> BlankLineBeforeTableApply(text), err |-> Nil]
      [] r.kind = "SingleSpaceAfterEnumeration" ->
            [out |-> SingleSpaceAfterEnumerationApply(text), err |-> Nil]
      [] r.kind = "SingleSpaceAfterListItem" ->
            [out |-> SingleSpaceAfterListItemApply(text), err |-> Nil]
      [] r.kind = "Failing" ->
            [out |-> text, err |-> r.cause]

\* the entry of the history for one call of Apply
Call(r, text, a) == [name |-> r.name, in |-> text, out |-> a.out, err |-> a.err]

\* NewFormatter(ruleList...) followed by the call Format(doc)
InitWith(ruleLists, docs) ==
    /\ rules \in ruleLists
    /\ input \in docs
    /\ content = input
    /\ idx = 0
    /\ pc = "run"
    /\ result = <<>>
    /\ err = NilErr
    /\ applied = <<>>
    /\ calls = 0
    /\ prev = <<>>

\* One iteration of Format's loop in which the rule succeeds.
FormatStep ==
    /\ pc = "run"
    /\ idx < Len(rules)
    /\ \E ord \in VisitOrders(rules[idx + 1].replacements) :
          LET r == rules[idx + 1]
              a == ApplyRule(r, content, ord)
          IN  /\ a.err = Nil
              /\ content' = a.out
              /\ applied' = Append(applied, Call(r, content, a))
    /\ idx' = idx + 1
    /\ UNCHANGED <<rules, input, pc, result, err, calls, prev>>

\* FormatFail returning the text transformed so far instead of ""
FormatFailKeepsContent ==
    /\ pc = "run"
    /\ idx < Len(rules)
    /\ \E ord \in VisitOrders(rules[idx + 1].replacements) :
          LET r == rules[idx + 1]
              a == ApplyRule(r, content, ord)
          IN  /\ a.err # Nil
              /\ content' = a.out
              /\ applied' = Append(applied, Call(r, content, a))
              /\ err' = [rule |-> r.name, cause |-> a.err]
              /\ result' = a.out
    /\ pc' = "done"
    /\ calls' = calls + 1
    /\ UNCHANGED <<rules, input, idx, prev>>

\* The iteration of Format's loop in which the rule fails: Format returns
\* "" and the error wrapping the rule's name and cause.
FormatFail ==
    /\ pc = "run"
    /\ idx < Len(rules)
    /\ \E ord \in VisitOrders(rules[idx + 1].replacements) :
          LET r == rules[idx + 1]
              a == ApplyRule(r, content, ord)
          IN  /\ a.err # Nil
              /\ content' = a.out
              /\ applied' = Append(applied, Call(r, content, a))
              /\ err' = [rule |-> r.name, cause |-> a.err]
    /\ result' = <<>>
    /\ pc' = "done"
    /\ calls' = calls + 1
    /\ UNCHANGED <<rules, input, idx, prev>>

\* Format's loop is over: it returns content and nil.
FormatReturn ==
    /\ pc = "run"
    /\ idx = Len(rules)
    /\ result' = content
    /\ err' = NilErr
    /\ pc' = "done"
    /\ calls' = calls + 1
    /\ UNCHANGED <<rules, input, content, idx, applied, prev>>

-----------------------------------------------------------------------------
(* The Formatter with arbitrary rule lists                                  *)

MaxRules == 3
MaxDocLen == 2

FormatAlphabet == {"#", " ", "-", "a", NL}

FormatRules ==
    {NewBlankLineAfterHeadingRule, NewSingleSpaceAfterListItemRule,
     FailingRule("Broken", "boom")}

Init == InitWith(UNION {[1..k -> FormatRules] : k \in 0..MaxRules},
                 Strings(FormatAlphabet, MaxDocLen))

Next == FormatStep \/ FormatFail \/ FormatReturn

Spec == Init /\ [][Next]_vars

\* C1: Format applies the rules in list order, each rule receiving the text
\* the previous one returned (the first the input); no rule is applied after
\* the first failure, and then Format returns the empty text and an error
\* with the failing rule's name and cause; without a failure it returns the
\* last rule's output and no error.
C1_FormatInOrderShortCircuit ==
    LET n == Len(applied)
    IN  /\ n <= Len(rules)
        /\ n = idx + (IF pc = "done" /\ err # NilErr THEN 1 ELSE 0)
        /\ \A j \in 1..n :
              /\ applied[j].name = rules[j].name
              /\ applied[j].in = (IF j = 1 THEN input ELSE applied[j - 1].out)
              /\ applied[j].out = ApplyRule(rules[j], applied[j].in, <<>>).out
        /\ \A j \in 1..(n - 1) : applied[j].err = Nil
        /\ pc = "done" =>
              IF n > 0 /\ applied[n].err # Nil
              THEN /\ result = <<>>
                   /\ err = [rule |-> rules[n].name, cause |-> applied[n].err]
              ELSE /\ n = Len(rules)
                   /\ err = NilErr
                   /\ result = (IF n = 0 THEN input ELSE applied[n].out)

\* a rule changed the text, the next rule failed, and a rule was left unapplied
C1_Witness ==
    /\ pc = "done"
    /\ err = [rule |-> "Broken", cause |-> "boom"]
    /\ Len(applied) = 2
    /\ Len(rules) = 3
    /\ applied[1].out # input
    /\ result = <<>>

-----------------------------------------------------------------------------
(* The heading blank-line rule alone                                        *)

MaxHashRun == 7
MaxHeadingDocLen == 4

HeadingAlphabet == {"#", " ", "\t", "a", NL}

\* a run of k '#'
Hashes(k) == [j \in 1..k |-> "#"]

\* every short document, also behind a run of up to MaxHashRun '#'
HeadingDocs ==
    {Hashes(k) \o d : k \in 0..MaxHashRun, d \in Strings(HeadingAlphabet, MaxHeadingDocLen)}

InitHeading == InitWith({<<NewBlankLineAfterHeadingRule>>}, HeadingDocs)

NextRule == FormatStep \/ FormatReturn

SpecHeading == InitHeading /\ [][NextRule]_vars

\* a line with no character other than white space
IsBlankLine(line) == \A j \in 1..Len(line) : line[j] \in WhiteSpace

\* an ATX heading: after the leading spaces and tabs, 1 to 6 '#' and then a
\* space or a tab
IsHeadingLine(line) ==
    \E p \in 0..Len(line) : \E k \in 1..6 :
        /\ \A j \in 1..p : line[j] \in SpaceTab
        /\ p + k + 1 <= Len(line)
        /\ line[p + 1] = "#"
        /\ \A j \in (p + 1)..(p + k) : line[j] = "#"
        /\ line[p + k + 1] \in SpaceTab

\* an empty line belongs after line i: a heading that is the last line or
\* whose next line has a character that is not white space
WantsBlankAfter(lines, i) ==
    /\ IsHeadingLine(lines[i])
    /\ (i = Len(lines) \/ ~IsBlankLine(lines[i + 1]))

\* out is lines with one empty line after each line i for which after[i]
\* holds and nothing else: line i sits at i plus the number of empty lines
\* inserted above it
IsLinesWithBlanks(out, lines, after) ==
    LET above(i) == Cardinality({j \in 1..(i - 1) : after[j]})
    IN  /\ Len(out) = Len(lines) + above(Len(lines) + 1)
        /\ \A i \in 1..Len(lines) :
              /\ out[i + above(i)] = lines[i]
              /\ after[i] => out[i + above(i) + 1] = <<>>

\* C3: the heading rule's output is the input's lines in order, with exactly
\* one empty line directly after each ATX heading line whose next line is
\* absent or not blank, and nothing inserted anywhere else.
C3_HeadingBlankLines ==
    pc = "done" =>
        LET lines == Split(input, NL)
        IN  IsLinesWithBlanks(Split(result, NL), lines,
                              [i \in 1..Len(lines) |-> WantsBlankAfter(lines, i)])

\* a line of seven '#' and a space was left alone and a heading that ends the
\* document got its empty line
C3_Witness ==
    /\ pc = "done"
    /\ HasPrefix(input, Hashes(7) \o <<" ", NL>>)
    /\ WantsBlankAfter(Split(input, NL), 2)
    /\ result = input \o <<NL>>

-----------------------------------------------------------------------------
(* The table blank-line rule alone                                          *)

MaxTableDocLen == 5

TableAlphabet == {"|", "-", ":", " ", "a", NL}

InitTable ==
    InitWith({<<NewBlankLineBeforeTableRule>>}, Strings(TableAlphabet, MaxTableDocLen))

SpecTable == InitTable /\ [][NextRule]_vars

\* an optional leading ':', one or more '-', an optional trailing ':'
IsDashSegment(seg) ==
    \E lead, trail \in 0..1 :
        /\ Len(seg) >= lead + trail + 1
        /\ lead = 1 => seg[1] = ":"
        /\ trail = 1 => seg[Len(seg)] = ":"
        /\ \A j \in (lead + 1)..(Len(seg) - trail) : seg[j] = "-"

\* A separator line as the specification describes it: the trimmed line has
\* a '|', and each segment between two neighbouring bounds (a '|', the start
\* or the end of the line) is, once trimmed, a dash segment, or is empty and
\* the first or the last one.
IsSeparatorLine(line) ==
    LET t == TrimSpace(line)
        n == Len(t)
        bounds == {0, n + 1} \cup {j \in 1..n : t[j] = "|"}
    IN  /\ \E j \in 1..n : t[j] = "|"
        /\ \A a, b \in bounds :
              (a < b /\ \A m \in bounds : ~(a < m /\ m < b)) =>
                  LET seg == TrimSpace(SubSeq(t, a + 1, b - 1))
                  IN  \/ IsDashSegment(seg)
                      \/ seg = <<>> /\ (a = 0 \/ b = n + 1)

\* C8: isTableSeparator is true exactly of the separator lines as specified;
\* an empty segment between two '|' disqualifies the line.
C8_SeparatorDetection ==
    pc = "done" =>
        \A k \in 1..Len(Split(input, NL)) :
            isTableSeparator(Split(input, NL)[k]) = IsSeparatorLine(Split(input, NL)[k])

\* C4: in the output of the table rule, the header row above every separator
\* line has a whitespace-only line directly above it.
C4_TablePrecededByBlank ==
    pc = "done" =>
        LET out == Split(result, NL)
        IN  \A i \in 1..Len(out) :
                IsSeparatorLine(out[i]) => i >= 3 /\ IsBlankLine(out[i - 2])

\* out is lines with one empty line directly above each line whose index is
\* in before, and nothing else
IsLinesWithBlanksBefore(out, lines, before) ==
    LET upTo(i) == Cardinality({j \in before : j <= i})
    IN  /\ Len(out) = Len(lines) + Cardinality(before)
        /\ \A i \in 1..Len(lines) :
              /\ out[i + upTo(i)] = lines[i]
              /\ i \in before => out[i + upTo(i) - 1] = <<>>

\* C10: the table rule only inserts empty lines, at most one per separator
\* line and each directly above the header row of a detected separator line
\* (above the separator itself when it is the first line and has no header
\* row); none goes between a header row and its separator line.
C10_TableOnlyInsertsAboveHeader ==
    pc = "done" =>
        LET lines == Split(input, NL)
            n == Len(lines)
        IN  \E before \in SUBSET (1..n) :
                /\ IsLinesWithBlanksBefore(Split(result, NL), lines, before)
                /\ \A i \in before :
                      /\ \/ i < n /\ isTableSeparator(lines[i + 1])
                         \/ i = 1 /\ isTableSeparator(lines[1])
                      /\ ~(i >= 2 /\ isTableSeparator(lines[i]))

-----------------------------------------------------------------------------
(* The inline-math rule alone                                               *)

MaxMathTokens == 5

\* the two delimiters and single characters, a lone backslash among them
MathTokens == {<<BS, "(">>, <<BS, ")">>, <<" ">>, <<"a">>, <<NL>>, <<BS>>}

RECURSIVE Concat(_)
Concat(seqs) == IF Len(seqs) = 0 THEN <<>> ELSE seqs[1] \o Concat(Tail(seqs))

MathDocs == {Concat(ts) : ts \in Strings(MathTokens, MaxMathTokens)}

InitMath == InitWith({<<NewInlineMathReplaceRule>>}, MathDocs)

SpecMath == InitMath /\ [][NextRule]_vars

OpenAt(s, i) == i + 1 <= Len(s) /\ s[i] = BS /\ s[i + 1] = "("

\* the position of the nearest closing delimiter after the opening one at i,
\* 0 if there is none
NearestClose(s, i) == IndexFrom(s, <<BS, ")">>, i + 2)

\* the delimited content of the occurrence opening at i, the white space
\* directly after the opening and directly before the closing delimiter removed
Inner(s, i) == TrimSpace(SubSeq(s, i + 2, NearestClose(s, i) - 1))

InnerOnOneLine(s, i) == \A j \in 1..Len(Inner(s, i)) : Inner(s, i)[j] # NL

\* the document from position i on, every leftmost shortest occurrence
\* rewritten to '$' + inner + '$' and all else kept; with oneLine, only the
\* occurrences whose inner content has no line feed count
RECURSIVE Rewritten(_, _, _)
Rewritten(s, i, oneLine) ==
    IF i > Len(s) THEN <<>>
    ELSE IF /\ OpenAt(s, i)
            /\ NearestClose(s, i) # 0
            /\ (oneLine => InnerOnOneLine(s, i))
    THEN <<"$">> \o Inner(s, i) \o <<"$">>
             \o Rewritten(s, NearestClose(s, i) + 2, oneLine)
    ELSE <<s[i]>> \o Rewritten(s, i + 1, oneLine)

\* C5 as stated: every occurrence of the delimiter pair is rewritten,
\* whatever lies between the delimiters.
C5_EveryOccurrenceRewritten ==
    pc = "done" => result = Rewritten(input, 1, FALSE)

\* C5 as amended: the occurrences rewritten are those whose inner content,
\* the white space next to the delimiters removed, has no line feed; an
\* opening delimiter whose nearest closing one lies beyond such a line feed
\* is kept as it is.
C5_OneLineOccurrencesRewritten ==
    pc = "done" => result = Rewritten(input, 1, TRUE)

\* an occurrence with a line feed after the opening delimiter and a space
\* before the closing one was rewritten, both removed
C5_Witness ==
    /\ pc = "done"
    /\ input = <<BS, "(", NL, "a", " ", BS, ")">>
    /\ result = <<"$", "a", "$">>

\* a whitespace-only line strictly inside s[from..to]
HasBlankLineWithin(s, from, to) ==
    \E a, b \in from..to :
        /\ a < b
        /\ s[a] = NL /\ s[b] = NL
        /\ \A m \in (a + 1)..(b - 1) : s[m] \in WhiteSpace \ {NL}

\* C9: an opening delimiter and the nearest closing one with a blank line
\* between them are not rewritten: the span is in the output as it was.
C9_NoMatchAcrossBlankLine ==
    pc = "done" =>
        \A i \in 1..Len(input) :
            (/\ OpenAt(input, i)
             /\ NearestClose(input, i) # 0
             /\ HasBlankLineWithin(input, i + 2, NearestClose(input, i) - 1))
            => Contains(result, SubSeq(input, i, NearestClose(input, i) + 1))

-----------------------------------------------------------------------------
(* The list-marker spacing rule alone                                       *)

MaxListDocLen == 5

ListAlphabet == {"-", "*", " ", "\t", "a", NL}

InitList ==
    InitWith({<<NewSingleSpaceAfterListItemRule>>}, Strings(ListAlphabet, MaxListDocLen))

SpecList == InitList /\ [][NextRule]_vars

\* line is p characters of leading white space, a marker, a run of exactly
\* q >= 1 spaces and tabs, and the rest
IsListItem(line, p, q) ==
    /\ q >= 1
    /\ p + 1 + q <= Len(line)
    /\ \A j \in 1..p : line[j] \in WhiteSpace
    /\ line[p + 1] \in {"-", "*"}
    /\ \A j \in (p + 2)..(p + 1 + q) : line[j] \in SpaceTab
    /\ (p + 1 + q = Len(line) \/ line[p + 2 + q] \notin SpaceTab)

\* C6: the list rule rewrites each list-item line to its leading white space,
\* "- " and the rest, leaves every other line as it is, and keeps the number
\* and the order of the lines.
C6_ListMarkerSpacing ==
    pc = "done" =>
        LET lines == Split(input, NL)
            out == Split(result, NL)
        IN  /\ Len(out) = Len(lines)
            /\ \A k \in 1..Len(lines) :
                  LET line == lines[k]
                      forms == {f \in (0..Len(line)) \X (0..Len(line)) :
                                    IsListItem(line, f[1], f[2])}
                  IN  IF forms = {} THEN out[k] = line
                      ELSE \A f \in forms :
                              out[k] = Take(line, f[1]) \o <<"-", " ">>
                                           \o Drop(line, f[1] + 1 + f[2])

\* an indented '*' item with a tab and a space after the marker was rewritten
C6_Witness ==
    /\ pc = "done"
    /\ input = <<" ", "*", "\t", " ", "a">>
    /\ IsListItem(input, 1, 2)
    /\ result = <<" ", "-", " ", "a">>

-----------------------------------------------------------------------------
(* The default pipeline of main, run again on its own output                *)

MaxCalls == 2
MaxPipelineDocLen == 3

\* the characters U+201E and U+201C of the default mapping
LowQuote == "lq9"
HighQuote == "lq6"

SmartQuotes == (<<LowQuote>> :> <<"\"">>) @@ (<<HighQuote>> :> <<"\"">>)

DefaultRules ==
    <<NewBlankLineAfterHeadingRule,
      NewBlankLineBeforeTableRule,
      NewInlineMathReplaceRule,
      NewSingleSpaceAfterEnumerationRule,
      NewSingleSpaceAfterListItemRule,
      NewReplacementRule("SmartQuotesToAscii", SmartQuotes)>>

PipelineAlphabet ==
    {"#", " ", "a", NL, "|", "-", BS, "(", ")", "*", "1", ".", LowQuote, HighQuote}

InitPipeline == InitWith({DefaultRules}, Strings(PipelineAlphabet, MaxPipelineDocLen))

\* the caller hands the text Format returned to Format again
Reformat ==
    /\ pc = "done"
    /\ err = NilErr
    /\ calls < MaxCalls
    /\ input' = result
    /\ content' = result
    /\ prev' = result
    /\ idx' = 0
    /\ pc' = "run"
    /\ applied' = <<>>
    /\ UNCHANGED <<rules, result, err, calls>>

NextPipeline == FormatStep \/ FormatReturn \/ Reformat

SpecPipeline == InitPipeline /\ [][NextPipeline]_vars

\* C2: the default pipeline is idempotent: Format of Format's output is that
\* output.
C2_PipelineIdempotent ==
    (pc = "done" /\ calls = 2) => result = prev

-----------------------------------------------------------------------------
(* A replacement rule, run again on the same document                       *)

MaxReplaceDocLen == 3

ReplaceAlphabet == {"a", "b", "c"}

ReplaceKeys == {<<"a">>, <<"b">>}

ReplaceValues == {<<"a">>, <<"b">>, <<"c">>, <<>>}

\* every map from some of the keys to the values
ReplaceMaps == UNION {[keys -> ReplaceValues] : keys \in SUBSET ReplaceKeys}

InitReplace ==
    InitWith({<<NewReplacementRule("Replace", m)>> : m \in ReplaceMaps},
             Strings(ReplaceAlphabet, MaxReplaceDocLen))

\* the caller hands the same document to Format again
Rerun ==
    /\ pc = "done"
    /\ calls < MaxCalls
    /\ content' = input
    /\ prev' = result
    /\ idx' = 0
    /\ pc' = "run"
    /\ applied' = <<>>
    /\ UNCHANGED <<rules, input, result, err, calls>>

NextReplace == FormatStep \/ FormatReturn \/ Rerun

SpecReplace == InitReplace /\ [][NextReplace]_vars

\* C7: Format is deterministic: two executions with the same rule list and
\* the same document return the same text, whatever order the replacement
\* rule visits its mapping's entries in.
C7_FormatDeterministic ==
    (pc = "done" /\ calls = 2) => result = prev

=============================================================================
